---- MODULE Spec2Model ----
(***************************************************************************)
(* Residual-map anomaly detection: the image operations of                 *)
(* processing/cv.py, the classification and scoring steps of test.py and   *)
(* the area-distribution functions of inspection.py.                       *)
(*                                                                         *)
(* An image is a sequence of rows, a row a sequence of byte values; a      *)
(* batch is a sequence of images.  The trailing channel axis of size 1     *)
(* that the source carries (np.expand_dims(..., axis=-1)) holds no data    *)
(* and is not represented, except where label_images is given maps that    *)
(* carry it (label_images_channels).                                       *)
(***************************************************************************)
EXTENDS Integers, Sequences, FiniteSets, TLC

VARIABLES
    pc,            \* position in the script being run
    resmaps,       \* the input batch (resmaps_test / resmaps_val_uint8)
    threshold,     \* args.threshold
    min_area,      \* args.area
    resmaps_th,    \* test.py:152
    areas_all,     \* test.py:155
    y_pred,        \* test.py:158
    filenames,     \* test.py:135, each file name as its path components
    total_number,  \* test.py:121
    y_true,        \* test.py:161
    P,             \* test.py:164
    N,             \* test.py:167
    TP,            \* test.py:170
    TN,            \* test.py:173
    TPR,           \* test.py:178
    TNR,           \* test.py:181
    conf_matrix,   \* test.py:184
    test_result,   \* test.py:149, 188-191
    save,          \* test.py:49, args.save
    files,         \* the files written under save_dir (test.py:194-219)
    error,         \* the exception that ended the run, if any
    max_area,      \* inspection.py: the last get_max_area call and its outcome
    th_min,        \* inspection.py:551, argument of the sweep
    th_max,        \* inspection.py:551, argument of the sweep
    counts,        \* inspection.py:558-572
    edges,         \* inspection.py:566
    counts_sum,    \* inspection.py:576
    x_bars,        \* inspection.py:577
    counts_cumsum, \* inspection.py:601
    th_min_call,   \* inspection.py: the last get_threshold_min call and its outcome
    kernel_size,   \* processing/cv.py:46, argument of filter_median_images
    resmaps_fil,   \* processing/cv.py:69, what filter_median_images returned
    resmaps_labeled, \* test.py:155, inspection.py:463
    shares_memory  \* whether the array the last cv.py call returned is its argument

pipeVars == <<resmaps, threshold, min_area, resmaps_th, areas_all, y_pred>>
scoreVars ==
    <<filenames, total_number, y_true, P, N, TP, TN, TPR, TNR, conf_matrix,
      test_result, save, files>>
calibVars ==
    <<max_area, th_min, th_max, counts, edges, counts_sum, x_bars,
      counts_cumsum, th_min_call>>
opsVars == <<kernel_size, resmaps_fil, resmaps_labeled, shares_memory>>
vars == <<pc, pipeVars, scoreVars, calibVars, opsVars, error>>

(***************************************************************************)
(* Bounds of the model.                                                    *)
(***************************************************************************)
ImgW == 3
MaxN == 2
MaxMinArea == 3

ImgRows == {1, 2}
Levels == {0, 1, 2}
Thresholds == {0, 1, 2}
MinAreas == 0..MaxMinArea

(***************************************************************************)
(* Program constants.                                                      *)
(***************************************************************************)
MaxVal == 255
KernelSize == 3

(***************************************************************************)
(* Option values: <<>> is "not computed", <<v>> is the value v.            *)
(***************************************************************************)
None == << >>
Some(v) == <<v>>

(***************************************************************************)
(* Images.                                                                 *)
(***************************************************************************)
Height(image) == Len(image)
Width(image) == Len(image[1])
Pos(image) == {p \in (1..Height(image)) \X (1..Width(image)) : TRUE}
At(image, p) == image[p[1]][p[2]]
Foreground(image) == {p \in Pos(image) : At(image, p) # 0}

ImageOf(rowset, w, S, v) ==
    [r \in rowset |-> [c \in 1..w |-> IF <<r, c>> \in S THEN v ELSE 0]]

AllImages == [ImgRows -> [1..ImgW -> Levels]]

SampleImages ==
    { ImageOf(ImgRows, ImgW, {}, 0),
      ImageOf(ImgRows, ImgW, {<<1, 1>>}, 2),
      ImageOf(ImgRows, ImgW, {<<1, 1>>, <<2, 2>>}, 2),
      ImageOf(ImgRows, ImgW, {<<1, 1>>, <<1, ImgW>>}, 2),
      ImageOf(ImgRows, ImgW, ImgRows \X (1..ImgW), 1) }

Batches ==
    {<<img>> : img \in AllImages}
        \cup UNION {[1..n -> SampleImages] : n \in 2..MaxN}

(***************************************************************************)
(* processing/cv.py: threshold_images.                                     *)
(* cv2.threshold(src, thresh, maxval, THRESH_BINARY):                      *)
(*     dst = maxval if src > thresh else 0.                                *)
(***************************************************************************)
\* C4, mutant: the comparison made inclusive (src >= thresh)
cv2_threshold_ge(image, thresh, maxval) ==
    [r \in DOMAIN image |->
        [c \in DOMAIN image[r] |->
            IF image[r][c] >= thresh THEN maxval ELSE 0]]

\* C17 and C20, mutant: the two outputs exchanged (THRESH_BINARY_INV)
cv2_threshold_inv(image, thresh, maxval) ==
    [r \in DOMAIN image |->
        [c \in DOMAIN image[r] |->
            IF image[r][c] > thresh THEN 0 ELSE maxval]]

cv2_threshold(image, thresh, maxval) ==
    [r \in DOMAIN image |->
        [c \in DOMAIN image[r] |->
            IF image[r][c] > thresh THEN maxval ELSE 0]]

threshold_images(images, th) ==
    [i \in DOMAIN images |-> cv2_threshold(images[i], th, MaxVal)]

(***************************************************************************)
(* processing/cv.py: filter_median_images.                                 *)
(* cv2.medianBlur(src, ksize): each pixel becomes the median of the        *)
(* ksize x ksize window around it; outside the image the border pixel is   *)
(* replicated (BORDER_REPLICATE).                                          *)
(***************************************************************************)
Clamp(x, lo, hi) == IF x < lo THEN lo ELSE IF x > hi THEN hi ELSE x

RECURSIVE cv2_blur_sum(_, _, _, _)
cv2_blur_sum(image, r, c, offs) ==
    IF offs = {} THEN 0
    ELSE LET d == CHOOSE o \in offs : TRUE
         IN  image[Clamp(r + d[1], 1, Height(image))][Clamp(c + d[2], 1, Width(image))]
                + cv2_blur_sum(image, r, c, offs \ {d})

\* C25, mutant: the mean of the window in place of its median (cv2.blur)
cv2_blur(image, ksize) ==
    LET half == (ksize - 1) \div 2
        offs == ((0 - half)..half) \X ((0 - half)..half)
        n == Cardinality(offs)
    IN  [r \in DOMAIN image |->
            [c \in DOMAIN image[r] |->
                (2 * cv2_blur_sum(image, r, c, offs) + n) \div (2 * n)]]

cv2_medianBlur(image, ksize) ==
    LET half == (ksize - 1) \div 2
        offs == ((0 - half)..half) \X ((0 - half)..half)
        rank == (ksize * ksize + 1) \div 2
        Px(r, c) == image[Clamp(r, 1, Height(image))][Clamp(c, 1, Width(image))]
        CountLE(r, c, v) ==
            Cardinality({d \in offs : Px(r + d[1], c + d[2]) <= v})
        Median(r, c) ==
            LET vals == {Px(r + d[1], c + d[2]) : d \in offs}
            IN  CHOOSE v \in vals :
                    /\ CountLE(r, c, v) >= rank
                    /\ \A u \in vals : u < v => CountLE(r, c, u) < rank
    IN  [r \in DOMAIN image |-> [c \in DOMAIN image[r] |-> Median(r, c)]]

\* filter_median_images(images, kernel_size).  cv2.medianBlur asserts
\* ksize % 2 == 1 and raises cv2.error otherwise; the exception leaves the loop
\* at the first image and nothing is returned.  A ksize of 1 is accepted: the
\* window is the pixel itself and the image comes back unchanged.
filter_median_images_ks(images, ksize) ==
    IF Len(images) > 0 /\ ksize % 2 # 1
    THEN [raised |-> TRUE, value |-> None]
    ELSE [raised |-> FALSE,
          value  |-> Some([i \in DOMAIN images |-> cv2_medianBlur(images[i], ksize)])]

\* filter_median_images(images): kernel_size takes its default
filter_median_images(images) ==
    [i \in DOMAIN images |-> cv2_medianBlur(images[i], KernelSize)]

(***************************************************************************)
(* processing/cv.py: label_images.                                         *)
(* skimage.measure.label(image): background 0; two pixels are connected    *)
(* when they are neighbours (full connectivity: the 8 neighbours of a      *)
(* pixel) and hold the same value; ids are handed out in raster order.     *)
(* regionprops(image_labeled): one region per id, in increasing id order.  *)
(***************************************************************************)
\* C21, mutant: the 4 neighbours of a pixel only (connectivity=1)
Neighbours4(image, p) ==
    {q \in {<<p[1] + d[1], p[2] + d[2]>> : d \in (-1..1) \X (-1..1)} :
        /\ q # p
        /\ q[1] = p[1] \/ q[2] = p[2]
        /\ q \in Pos(image)
        /\ At(image, q) = At(image, p)}

Neighbours(image, p) ==
    {q \in {<<p[1] + d[1], p[2] + d[2]>> : d \in (-1..1) \X (-1..1)} :
        /\ q # p
        /\ q \in Pos(image)
        /\ At(image, q) = At(image, p)}

RECURSIVE Flood(_, _, _)
Flood(image, S, frontier) ==
    LET new == (UNION {Neighbours(image, p) : p \in frontier}) \ S
    IN  IF new = {} THEN S ELSE Flood(image, S \cup new, new)

RasterIndex(image, p) == (p[1] - 1) * Width(image) + p[2]

RasterFirst(image, S) ==
    CHOOSE p \in S : \A q \in S : RasterIndex(image, p) <= RasterIndex(image, q)

RECURSIVE Regions(_, _)
Regions(image, rest) ==
    IF rest = {} THEN << >>
    ELSE LET seed == RasterFirst(image, rest)
             comp == Flood(image, {seed}, {seed})
         IN  <<comp>> \o Regions(image, rest \ comp)

label(image) ==
    LET regs == Regions(image, Foreground(image))
    IN  [r \in DOMAIN image |->
            [c \in DOMAIN image[r] |->
                IF image[r][c] = 0 THEN 0
                ELSE CHOOSE k \in DOMAIN regs : <<r, c>> \in regs[k]]]

\* C24, mutant: the area of a region taken from its bounding box (bbox_area)
regionprops_bbox(image_labeled) ==
    LET ids == {At(image_labeled, p) : p \in Pos(image_labeled)} \ {0}
        Of(k) == {p \in Pos(image_labeled) : At(image_labeled, p) = k}
        Span(S, axis) ==
            1 + (CHOOSE hi \in {p[axis] : p \in S} : \A p \in S : p[axis] <= hi)
              - (CHOOSE lo \in {p[axis] : p \in S} : \A p \in S : p[axis] >= lo)
    IN  [k \in 1..Cardinality(ids) |-> Span(Of(k), 1) * Span(Of(k), 2)]

regionprops(image_labeled) ==
    LET ids == {At(image_labeled, p) : p \in Pos(image_labeled)} \ {0}
    IN  [k \in 1..Cardinality(ids) |->
            Cardinality({p \in Pos(image_labeled) : At(image_labeled, p) = k})]

label_images(images) ==
    LET images_labeled == [i \in DOMAIN images |-> label(images[i])]
    IN  [images_labeled |-> images_labeled,
         areas_all      |-> [i \in DOMAIN images |-> regionprops(images_labeled[i])]]

(***************************************************************************)
(* processing/cv.py: label_images on maps that carry the trailing channel  *)
(* axis (inspection.py:461-462, the output of filter_median_images).  The  *)
(* map is then three-dimensional, a pixel <<v>>; label takes full          *)
(* connectivity in the three dimensions (connectivity = image.ndim), a     *)
(* region's area is its number of elements.                                *)
(***************************************************************************)
\* np.expand_dims(image, axis=-1)
expand_dims(image) ==
    [r \in DOMAIN image |-> [c \in DOMAIN image[r] |-> <<image[r][c]>>]]

\* image[:, :, 0]
take_channel(image) ==
    [r \in DOMAIN image |-> [c \in DOMAIN image[r] |-> image[r][c][1]]]

Depth(image) == Len(image[1][1])
Voxels(image) ==
    {v \in (1..Height(image)) \X (1..Width(image)) \X (1..Depth(image)) : TRUE}
VoxelAt(image, v) == image[v[1]][v[2]][v[3]]

NeighbourVoxels(image, v) ==
    {w \in {<<v[1] + d[1], v[2] + d[2], v[3] + d[3]>> :
                d \in (-1..1) \X (-1..1) \X (-1..1)} :
        /\ w # v
        /\ w \in Voxels(image)
        /\ VoxelAt(image, w) = VoxelAt(image, v)}

RECURSIVE FloodVoxels(_, _, _)
FloodVoxels(image, S, frontier) ==
    LET new == (UNION {NeighbourVoxels(image, v) : v \in frontier}) \ S
    IN  IF new = {} THEN S ELSE FloodVoxels(image, S \cup new, new)

VoxelIndex(image, v) ==
    ((v[1] - 1) * Width(image) + (v[2] - 1)) * Depth(image) + v[3]

RECURSIVE VoxelRegions(_, _)
VoxelRegions(image, rest) ==
    IF rest = {} THEN << >>
    ELSE LET seed == CHOOSE v \in rest :
                        \A w \in rest : VoxelIndex(image, v) <= VoxelIndex(image, w)
             comp == FloodVoxels(image, {seed}, {seed})
         IN  <<comp>> \o VoxelRegions(image, rest \ comp)

label_channels(image) ==
    LET regs == VoxelRegions(image, {v \in Voxels(image) : VoxelAt(image, v) # 0})
    IN  [r \in DOMAIN image |->
            [c \in DOMAIN image[r] |->
                [k \in DOMAIN image[r][c] |->
                    IF image[r][c][k] = 0 THEN 0
                    ELSE CHOOSE n \in DOMAIN regs : <<r, c, k>> \in regs[n]]]]

regionprops_channels(image_labeled) ==
    LET ids == {VoxelAt(image_labeled, v) : v \in Voxels(image_labeled)} \ {0}
    IN  [n \in 1..Cardinality(ids) |->
            Cardinality({v \in Voxels(image_labeled) :
                            VoxelAt(image_labeled, v) = n})]

label_images_channels(images) ==
    LET images_labeled == [i \in DOMAIN images |-> label_channels(images[i])]
    IN  [images_labeled |-> images_labeled,
         areas_all      |-> [i \in DOMAIN images |->
                                regionprops_channels(images_labeled[i])]]

(***************************************************************************)
(* processing/cv.py: the three functions as calls on arrays in memory.     *)
(*                                                                         *)
(* The memory of a call holds the argument array (images) and the arrays   *)
(* the body allocates; each pass of the loop reads and writes it.  The     *)
(* call's outcome is the memory when it returns and the name of the array  *)
(* returned.                                                               *)
(***************************************************************************)
\* np.zeros(shape=images.shape): a new array
np_zeros(images) ==
    [i \in DOMAIN images |->
        [r \in DOMAIN images[i] |-> [c \in DOMAIN images[i][r] |-> 0]]]

\* cv.py:79-80, one pass of the loop of threshold_images
threshold_images_pass(mem, th, i) ==
    [mem EXCEPT !.images_th[i] = cv2_threshold(mem.images[i], th, MaxVal)]

RECURSIVE threshold_images_loop(_, _, _)
threshold_images_loop(mem, th, i) ==
    IF i > Len(mem.images) THEN mem
    ELSE threshold_images_loop(threshold_images_pass(mem, th, i), th, i + 1)

\* C23, mutant: the binary map written into the argument (dst = src)
threshold_images_inplace(images, th) ==
    [images    |-> threshold_images(images, th),
     images_th |-> np_zeros(images),
     returns   |-> "images"]

\* cv.py:72-81
threshold_images_call(images, th) ==
    threshold_images_loop([images    |-> images,
                           images_th |-> np_zeros(images),
                           returns   |-> "images_th"], th, 1)

\* cv.py:65-68, one pass of the loop of filter_median_images
filter_median_images_pass(mem, ksize, i) ==
    [mem EXCEPT !.images_filtered[i] = cv2_medianBlur(mem.images[i], ksize)]

RECURSIVE filter_median_images_loop(_, _, _)
filter_median_images_loop(mem, ksize, i) ==
    IF i > Len(mem.images) THEN mem
    ELSE filter_median_images_loop(filter_median_images_pass(mem, ksize, i),
                                   ksize, i + 1)

\* cv.py:46-69; cv2.medianBlur raises in the first pass for an even ksize
filter_median_images_call(images, ksize) ==
    LET mem == [images          |-> images,
                images_filtered |-> np_zeros(images),
                returns         |-> "images_filtered"]
    IN  IF filter_median_images_ks(images, ksize).raised
        THEN [raised |-> TRUE] @@ mem
        ELSE [raised |-> FALSE] @@ filter_median_images_loop(mem, ksize, 1)

\* C22, mutant: the list of areas kept from one pass to the next (areas
\* created before the loop and extended in it)
label_images_pass_shared(mem, i) ==
    LET labeled == [mem EXCEPT !.images_labeled[i] = label(mem.images[i])]
        before == IF mem.areas_all = << >> THEN << >>
                  ELSE mem.areas_all[Len(mem.areas_all)]
    IN  [labeled EXCEPT
            !.areas_all =
                Append(@, before \o regionprops(labeled.images_labeled[i]))]

\* cv.py:117-125, one pass of the loop of label_images
label_images_pass(mem, i) ==
    LET labeled == [mem EXCEPT !.images_labeled[i] = label(mem.images[i])]
    IN  [labeled EXCEPT
            !.areas_all = Append(@, regionprops(labeled.images_labeled[i]))]

RECURSIVE label_images_loop(_, _)
label_images_loop(mem, i) ==
    IF i > Len(mem.images) THEN mem
    ELSE label_images_loop(label_images_pass(mem, i), i + 1)

\* cv.py:84-127
label_images_call(images) ==
    label_images_loop([images         |-> images,
                       images_labeled |-> np_zeros(images),
                       areas_all      |-> << >>,
                       returns        |-> "images_labeled"], 1)

(***************************************************************************)
(* test.py: is_defective, classify.                                        *)
(***************************************************************************)
\* C3, mutant: the comparison made strict (area > min_area)
is_defective_gt(areas, minarea) ==
    IF Len(SelectSeq(areas, LAMBDA a : a > minarea)) > 0 THEN 1 ELSE 0

is_defective(areas, minarea) ==
    IF Len(SelectSeq(areas, LAMBDA a : a >= minarea)) > 0 THEN 1 ELSE 0

RECURSIVE classify_loop(_, _, _, _)
classify_loop(areasall, minarea, i, ypred) ==
    IF i > Len(areasall) THEN ypred
    ELSE classify_loop(areasall, minarea, i + 1,
                       Append(ypred, is_defective(areasall[i], minarea)))

\* C5, mutant: the decisions collected in reverse order
RECURSIVE classify_reversed(_, _)
classify_reversed(areasall, minarea) ==
    IF areasall = << >> THEN << >>
    ELSE Append(classify_reversed(Tail(areasall), minarea),
                is_defective(Head(areasall), minarea))

classify(areasall, minarea) == classify_loop(areasall, minarea, 1, << >>)

(***************************************************************************)
(* The variables a specification does not use stay "not computed".         *)
(***************************************************************************)
NoScore ==
    /\ filenames = None
    /\ total_number = None
    /\ y_true = None
    /\ P = None
    /\ N = None
    /\ TP = None
    /\ TN = None
    /\ TPR = None
    /\ TNR = None
    /\ conf_matrix = None
    /\ test_result = None
    /\ save = None
    /\ files = None

NoCalib ==
    /\ max_area = None
    /\ th_min = None
    /\ th_max = None
    /\ counts = None
    /\ edges = None
    /\ counts_sum = None
    /\ x_bars = None
    /\ counts_cumsum = None
    /\ th_min_call = None

NoOps ==
    /\ kernel_size = None
    /\ resmaps_fil = None
    /\ resmaps_labeled = None
    /\ shares_memory = None

(***************************************************************************)
(* test.py: main, the classification part (lines 146-158).                 *)
(***************************************************************************)
Init ==
    /\ pc = "start"
    /\ resmaps \in Batches
    /\ threshold \in Thresholds
    /\ min_area \in MinAreas
    /\ resmaps_th = None
    /\ areas_all = None
    /\ y_pred = None
    /\ NoScore
    /\ NoCalib
    /\ NoOps
    /\ error = None

\* test.py:152
ThresholdStep ==
    /\ pc = "start"
    /\ \E r \in {threshold_images_call(resmaps, threshold)} :
            /\ resmaps' = r.images
            /\ resmaps_th' = Some(r[r.returns])
            /\ shares_memory' = Some(r.returns = "images")
    /\ pc' = "thresholded"
    /\ UNCHANGED <<threshold, min_area, areas_all, y_pred>>
    /\ UNCHANGED <<scoreVars, calibVars, error>>
    /\ UNCHANGED <<kernel_size, resmaps_fil, resmaps_labeled>>

\* test.py:155
LabelStep ==
    /\ pc = "thresholded"
    /\ \E r \in {label_images_call(resmaps_th[1])} :
            /\ resmaps_th' = Some(r.images)
            /\ resmaps_labeled' = Some(r[r.returns])
            /\ areas_all' = Some(r.areas_all)
            /\ shares_memory' = Some(r.returns = "images")
    /\ pc' = "labeled"
    /\ UNCHANGED <<resmaps, threshold, min_area, y_pred>>
    /\ UNCHANGED <<scoreVars, calibVars, error>>
    /\ UNCHANGED <<kernel_size, resmaps_fil>>

ClassifyStep ==
    /\ pc = "labeled"
    /\ y_pred' = Some(classify(areas_all[1], min_area))
    /\ pc' = "classified"
    /\ UNCHANGED <<resmaps, threshold, min_area, resmaps_th, areas_all>>
    /\ UNCHANGED <<scoreVars, calibVars, opsVars, error>>

Next == ThresholdStep \/ LabelStep \/ ClassifyStep

Spec == Init /\ [][Next]_vars

(***************************************************************************)
(* test.py: main, the scoring part (lines 160-191).                        *)
(*                                                                         *)
(* A rate is a numpy float: the quotient num/den, or nan (0/0), or inf     *)
(* (x/0 with x > 0); numpy warns on a zero divisor and does not raise.     *)
(***************************************************************************)
np_divide(num, den) ==
    IF den = 0
    THEN [kind |-> IF num = 0 THEN "nan" ELSE "inf", num |-> num, den |-> den]
    ELSE [kind |-> "num", num |-> num, den |-> den]

\* test.py:161
ground_truth(names) ==
    [i \in DOMAIN names |->
        IF \A k \in DOMAIN names[i] : names[i][k] # "good" THEN 1 ELSE 0]

\* list.count
count(seq, v) == Cardinality({i \in DOMAIN seq : seq[i] = v})

\* test.py:170 and 173-175: the sum over range(total) of the chained
\* comparison y_pred[i] == y_true[i] == v (v is 1, or False, which equals 0)
agreements(ypred, ytrue, total, v) ==
    Cardinality({i \in 1..total : ypred[i] = ytrue[i] /\ ytrue[i] = v})

\* sklearn.metrics.confusion_matrix(y_true, y_pred, normalize="true"): one row
\* and one column per label of the union of both sequences, each row divided
\* by its sum, nan (an empty row) replaced by 0
confusion_labels(ytrue, ypred) ==
    {ytrue[i] : i \in DOMAIN ytrue} \cup {ypred[i] : i \in DOMAIN ypred}

confusion_matrix(ytrue, ypred) ==
    LET labels == confusion_labels(ytrue, ypred)
        Cell(t, p) ==
            LET row == count(ytrue, t)
                hit == Cardinality({i \in DOMAIN ytrue :
                                        ytrue[i] = t /\ ypred[i] = p})
            IN  IF row = 0 THEN <<0, 1>> ELSE <<hit, row>>
    IN  [t \in labels |-> [p \in labels |-> Cell(t, p)]]

EmptyResult ==
    [min_area |-> << >>, threshold |-> << >>, TPR |-> << >>, TNR |-> << >>]

\* How far lines 163-191 get: the line that raises, or "done"
score_outcome(ypred, ytrue, total) ==
    IF total > Len(ypred) \/ total > Len(ytrue)
    THEN "IndexError at 170"       \* an index of range(total_number) is out of range
    ELSE IF Len(ypred) # Len(ytrue)
    THEN "ValueError at 184"       \* confusion_matrix: inconsistent numbers of samples
    ELSE IF Cardinality(confusion_labels(ytrue, ypred)) # 2
    THEN "ValueError at 185"       \* ravel() of a 1x1 matrix does not unpack into 4 names
    ELSE "done"

ScoreStep ==
    /\ pc = "classified"
    /\ LET yp == y_pred[1]
           yt == ground_truth(filenames[1])
           total == total_number[1]
           out == score_outcome(yp, yt, total)
           tp == agreements(yp, yt, total, 1)
           tn == agreements(yp, yt, total, 0)
       IN  /\ y_true' = Some(yt)
           /\ P' = Some(count(yt, 1))
           /\ N' = Some(count(yt, 0))
           /\ TP' = IF out = "IndexError at 170" THEN None ELSE Some(tp)
           /\ TN' = IF out = "IndexError at 170" THEN None ELSE Some(tn)
           /\ TPR' = IF out = "IndexError at 170" THEN None
                     ELSE Some(np_divide(tp, count(yt, 1)))
           /\ TNR' = IF out = "IndexError at 170" THEN None
                     ELSE Some(np_divide(tn, count(yt, 0)))
           /\ conf_matrix' = IF out \in {"ValueError at 185", "done"}
                             THEN Some(confusion_matrix(yt, yp)) ELSE None
           /\ test_result' =
                IF out = "done"
                THEN Some([min_area  |-> Append(test_result[1].min_area, min_area),
                           threshold |-> Append(test_result[1].threshold, threshold),
                           TPR       |-> Append(test_result[1].TPR,
                                                np_divide(tp, count(yt, 1))),
                           TNR       |-> Append(test_result[1].TNR,
                                                np_divide(tn, count(yt, 0)))])
                ELSE test_result
           /\ pc' = IF out = "done" THEN "scored" ELSE "failed"
           /\ error' = IF out = "done" THEN None ELSE Some(out)
    /\ UNCHANGED <<pipeVars, filenames, total_number, calibVars, opsVars>>
    /\ UNCHANGED <<save, files>>

\* test.py:193-214: test_result.json and classification.txt are written and
\* the results printed
ReportStep ==
    /\ pc = "scored"
    /\ files' = Some(files[1] \cup {"test_result.json", "classification.txt"})
    /\ pc' = "reported"
    /\ UNCHANGED <<pipeVars, calibVars, opsVars, error>>
    /\ UNCHANGED <<filenames, total_number, y_true, P, N, TP, TN, TPR, TNR,
                   conf_matrix, test_result, save>>

\* the names main has bound when it reaches line 216: its parameter and
\* every name it assigns on lines 48-202 (parent_dir, val_dir, read_file and
\* validation_result only with --adopt-validation, line 89), and the names
\* bound at module level (lines 1-43, 222-250)
main_locals ==
    {"args", "model_path", "save", "model", "setup", "history", "directory",
     "test_data_dir", "nb_training_images", "nb_validation_images", "rescale",
     "shape", "preprocessing", "color_mode", "nb_training_images_aug", "epochs",
     "batch_size", "channels", "validation_split", "architecture", "loss",
     "tag", "model_dir_name", "save_dir", "min_area", "threshold",
     "preprocessing_function", "test_datagen", "total_number",
     "test_generator", "imgs_test_input", "filenames", "imgs_test_pred",
     "resmaps_test", "test_result", "resmaps_th", "resmaps_labeled",
     "areas_all", "y_pred", "y_true", "P", "N", "TP", "TN", "TPR", "TNR",
     "conf_matrix", "tn", "fp", "fn", "tp", "json_file", "classification",
     "df_clf", "f", "parent_dir", "val_dir", "read_file",
     "validation_result"}

module_globals ==
    {"os", "sys", "Path", "tf", "keras", "utils", "printProgressBar",
     "ImageDataGenerator", "confusion_matrix", "np", "plt", "pd", "json",
     "calculate_resmaps", "img_as_ubyte", "scale_pixel_values",
     "filter_gauss_images", "filter_median_images", "threshold_images",
     "label_images", "argparse", "time", "is_defective", "classify", "main",
     "parser", "args"}

\* test.py:217-219: utils.save_np(<array>, save_dir, <file>), in this order
save_calls ==
    << [array |-> "imgs_val_input", file |-> "imgs_test_input.npy"],
       [array |-> "imgs_val_pred", file |-> "imgs_test_pred.npy"],
       [array |-> "resmaps_val", file |-> "resmaps_test.npy"] >>

\* the files the calls write up to the first name that is not bound
\* (NameError), and whether a call raised
RECURSIVE run_save_calls(_, _, _)
run_save_calls(calls, i, written) ==
    IF i > Len(calls) THEN [raised |-> FALSE, files |-> written]
    ELSE IF calls[i].array \notin main_locals \cup module_globals
    THEN [raised |-> TRUE, files |-> written]
    ELSE run_save_calls(calls, i + 1, written \cup {calls[i].file})

\* test.py:216-219
SaveStep ==
    /\ pc = "reported"
    /\ \E r \in {IF save[1] THEN run_save_calls(save_calls, 1, {})
                  ELSE [raised |-> FALSE, files |-> {}]} :
            /\ files' = Some(files[1] \cup r.files)
            /\ error' = IF r.raised THEN Some("NameError at 217") ELSE None
            /\ pc' = IF r.raised THEN "failed" ELSE "done"
    /\ UNCHANGED <<pipeVars, calibVars, opsVars>>
    /\ UNCHANGED <<filenames, total_number, y_true, P, N, TP, TN, TPR, TNR,
                   conf_matrix, test_result, save>>

DefaultThreshold == 220
DefaultArea == 80

Labels01(n) == [1..n -> {0, 1}]
FileNames(n) == [1..n -> {<<"good", "000.png">>, <<"crack", "000.png">>}]

\* The state at test.py:160.  The number of files counted on disk
\* (total_number), the files the generator lists (filenames) and the images it
\* delivers (one prediction each) come from three different collaborators.
InitScore ==
    /\ pc = "classified"
    /\ resmaps = None
    /\ threshold = DefaultThreshold
    /\ min_area = DefaultArea
    /\ resmaps_th = None
    /\ areas_all = None
    /\ \E n \in 1..(MaxN + 1) : y_pred \in {Some(y) : y \in Labels01(n)}
    /\ \E n \in 1..(MaxN + 1) : filenames \in {Some(f) : f \in FileNames(n)}
    /\ total_number \in {Some(n) : n \in 1..(MaxN + 1)}
    /\ y_true = None
    /\ P = None
    /\ N = None
    /\ TP = None
    /\ TN = None
    /\ TPR = None
    /\ TNR = None
    /\ conf_matrix = None
    /\ test_result = Some(EmptyResult)
    /\ save \in {Some(FALSE), Some(TRUE)}
    /\ files = Some({})
    /\ NoCalib
    /\ NoOps
    /\ error = None

NextScore == ScoreStep \/ ReportStep \/ SaveStep

SpecScore == InitScore /\ [][NextScore]_vars

(***************************************************************************)
(* inspection.py: get_max_area (lines 459-465).                            *)
(* np.amax of an empty array raises ValueError.                            *)
(***************************************************************************)
RECURSIVE flatten(_)
flatten(lists) ==
    IF lists = << >> THEN << >> ELSE Head(lists) \o flatten(Tail(lists))

SeqMax(seq) == CHOOSE m \in {seq[i] : i \in DOMAIN seq} :
                    \A i \in DOMAIN seq : seq[i] <= m

region_areas(images, th) ==
    flatten(label_images(filter_median_images(threshold_images(images, th))).areas_all)

\* C8, mutant: 0 instead of the exception when there is no region
get_max_area_or_zero(images, th) ==
    LET areas_all_1d == region_areas(images, th)
    IN  [raised |-> FALSE,
         value  |-> IF areas_all_1d = << >> THEN 0 ELSE SeqMax(areas_all_1d)]

get_max_area(images, th) ==
    LET areas_all_1d == region_areas(images, th)
    IN  IF areas_all_1d = << >>
        THEN [raised |-> TRUE, value |-> 0]
        ELSE [raised |-> FALSE, value |-> SeqMax(areas_all_1d)]

(***************************************************************************)
(* inspection.py: get_area_size_counts_multiple_thresholds (551-573).      *)
(* np.histogram(a, bins=nbins, density=True, range=(0.5, max_area + 0.5)): *)
(* nbins bins of equal width max_area/nbins, left-closed; a value outside  *)
(* the range is dropped; the density of a bin is count / width / total,    *)
(* which is nan (0/0) in every bin when no value is in the range.  An      *)
(* edge is the fraction <<numerator, denominator>>.                        *)
(***************************************************************************)
np_histogram(a, nbins, maxarea) ==
    LET inrange == {i \in DOMAIN a : a[i] >= 1 /\ a[i] <= maxarea}
        bin(i) == ((2 * a[i] - 1) * nbins) \div (2 * maxarea)
        total == Cardinality(inrange)
    IN  [k \in 1..nbins |->
            np_divide(Cardinality({i \in inrange : bin(i) = k - 1}) * nbins,
                      total * maxarea)]

np_histogram_edges(nbins, maxarea) ==
    [k \in 1..(nbins + 1) |-> <<nbins + 2 * (k - 1) * maxarea, 2 * nbins>>]

\* C11, mutant: the histogram range taken from the largest area at th_max
get_area_size_counts_range_at_th_max(images, thmin, thmax, nbins) ==
    LET m == get_max_area(images, thmax)
    IN  IF m.raised
        THEN [error |-> Some("ValueError at 464"), counts |-> None, edges |-> None]
        ELSE IF thmax < thmin
        THEN [error |-> Some("UnboundLocalError at 573"),
              counts |-> None, edges |-> None]
        ELSE [error  |-> None,
              counts |-> Some([i \in 1..(thmax - thmin + 1) |->
                                np_histogram(region_areas(images, thmin + i - 1),
                                             nbins, m.value)]),
              edges  |-> Some(np_histogram_edges(nbins, m.value))]

get_area_size_counts_multiple_thresholds(images, thmin, thmax, nbins) ==
    LET m == get_max_area(images, thmin)
    IN  IF m.raised
        THEN [error |-> Some("ValueError at 464"), counts |-> None, edges |-> None]
        ELSE IF thmax < thmin
        THEN \* the loop body never runs and "edges" is unbound at the return
             [error |-> Some("UnboundLocalError at 573"),
              counts |-> None, edges |-> None]
        ELSE [error  |-> None,
              counts |-> Some([i \in 1..(thmax - thmin + 1) |->
                                np_histogram(region_areas(images, thmin + i - 1),
                                             nbins, m.value)]),
              edges  |-> Some(np_histogram_edges(nbins, m.value))]

NBins == 3

InitCalib ==
    /\ pc = "inspect"
    /\ resmaps \in Batches
    /\ threshold = DefaultThreshold
    /\ min_area = DefaultArea
    /\ resmaps_th = None
    /\ areas_all = None
    /\ y_pred = None
    /\ NoScore
    /\ NoCalib
    /\ NoOps
    /\ error = None

\* a call get_max_area(resmaps_val_uint8, t) from the script (lines 480, 695)
GetMaxArea ==
    /\ pc = "inspect"
    /\ \E t \in Thresholds :
            max_area' = Some([threshold |-> t] @@ get_max_area(resmaps, t))
    /\ UNCHANGED <<pc, pipeVars, scoreVars, opsVars, error>>
    /\ UNCHANGED <<th_min, th_max, counts, edges, counts_sum, x_bars,
                   counts_cumsum, th_min_call>>

\* a call get_area_size_counts_multiple_thresholds(resmaps_val_uint8, th_min,
\* th_max) from the script (lines 592, 596, 605)
Sweep ==
    /\ pc = "inspect"
    /\ \E lo \in Thresholds, hi \in Thresholds :
         \E r \in {get_area_size_counts_multiple_thresholds(resmaps, lo, hi, NBins)} :
             /\ th_min' = Some(lo)
             /\ th_max' = Some(hi)
             /\ counts' = r.counts
             /\ edges' = r.edges
             /\ error' = r.error
             /\ pc' = IF r.error = None THEN "swept" ELSE "failed"
    /\ UNCHANGED <<pipeVars, scoreVars, opsVars, max_area>>
    /\ UNCHANGED <<counts_sum, x_bars, counts_cumsum, th_min_call>>

NextCalib == GetMaxArea \/ Sweep

SpecCalib == InitCalib /\ [][NextCalib]_vars

(***************************************************************************)
(* inspection.py: get_xbars, get_sum_counts (545-586) and the cumulative   *)
(* distribution of line 601 (SpecSweep).                                   *)
(*                                                                         *)
(* A numpy float is held exactly: the record of np_divide, that is nan,    *)
(* inf, or the quotient num/den of two naturals.  nan is absorbing in a    *)
(* sum and in a quotient, and no comparison with nan is true.  The         *)
(* rounding of float64 arithmetic is not represented.                      *)
(***************************************************************************)
RECURSIVE GCD(_, _)
GCD(a, b) == IF b = 0 THEN a ELSE GCD(b, a % b)

NaN == np_divide(0, 0)

Quotient(n, d) ==
    LET g == GCD(n, d) IN np_divide(n \div g, d \div g)

\* x + y of two floats
np_add(x, y) ==
    IF x.kind = "nan" \/ y.kind = "nan" THEN NaN
    ELSE IF x.kind = "inf" \/ y.kind = "inf" THEN np_divide(1, 0)
    ELSE Quotient(x.num * y.den + y.num * x.den, x.den * y.den)

\* x / y of two floats
np_true_divide(x, y) ==
    IF x.kind = "nan" \/ y.kind = "nan" THEN NaN
    ELSE IF x.kind = "inf" THEN (IF y.kind = "inf" THEN NaN ELSE x)
    ELSE IF y.kind = "inf" THEN Quotient(0, 1)
    ELSE IF y.num = 0 THEN np_divide(x.num, 0)
    ELSE Quotient(x.num * y.den, x.den * y.num)

\* x > n/d for a float x and naturals n, d
np_greater(x, n, d) ==
    \/ x.kind = "inf"
    \/ x.kind = "num" /\ x.num * d > n * x.den

\* np.sum of a one-dimensional array: the elements added from the first on
RECURSIVE np_sum_from(_, _, _)
np_sum_from(values, i, acc) ==
    IF i > Len(values) THEN acc
    ELSE np_sum_from(values, i + 1, np_add(acc, values[i]))

np_sum(values) == np_sum_from(values, 1, Quotient(0, 1))

\* np.sum(counts, axis=0): one sum per column
np_sum_axis0(rows) ==
    [k \in DOMAIN rows[1] |-> np_sum([i \in DOMAIN rows |-> rows[i][k]])]

\* np.sum(counts, axis=1): one sum per row
np_sum_axis1(rows) ==
    [i \in DOMAIN rows |-> np_sum(rows[i])]

np_cumsum(values) ==
    [k \in DOMAIN values |-> np_sum(SubSeq(values, 1, k))]

\* edges[:-1] + ((edges[1] - edges[0]) / 2); the edges share one denominator
get_xbars(e) ==
    [k \in 1..(Len(e) - 1) |-> <<2 * e[k][1] + (e[2][1] - e[1][1]), 2 * e[k][2]>>]

\* C13, mutant: the sum taken along the other axis (axis=1)
get_sum_counts_axis1(cnts, e) ==
    [counts_sum |-> np_sum_axis1(cnts), x_bars |-> get_xbars(e)]

\* get_sum_counts(counts, edges, th_min, th_max, plot=False); th_min and
\* th_max only label the plot
get_sum_counts(cnts, e) ==
    [counts_sum |-> np_sum_axis0(cnts), x_bars |-> get_xbars(e)]

\* inspection.py:593
SumCounts ==
    /\ pc = "swept"
    /\ \E r \in {get_sum_counts(counts[1], edges[1])} :
            /\ counts_sum' = Some(r.counts_sum)
            /\ x_bars' = Some(r.x_bars)
    /\ pc' = "summed"
    /\ UNCHANGED <<pipeVars, scoreVars, opsVars, error>>
    /\ UNCHANGED <<max_area, th_min, th_max, counts, edges, counts_cumsum,
                   th_min_call>>

\* inspection.py:601, counts_cumsum = np.cumsum(counts_sum)/np.sum(counts_sum)
CumSum ==
    /\ pc = "summed"
    /\ counts_cumsum' =
            Some(LET total == np_sum(counts_sum[1])
                     running == np_cumsum(counts_sum[1])
                 IN  [k \in DOMAIN running |-> np_true_divide(running[k], total)])
    /\ pc' = "accumulated"
    /\ UNCHANGED <<pipeVars, scoreVars, opsVars, error>>
    /\ UNCHANGED <<max_area, th_min, th_max, counts, edges, counts_sum, x_bars,
                   th_min_call>>

NextSweep == Sweep \/ SumCounts \/ CumSum

SpecSweep == InitCalib /\ [][NextSweep]_vars

(***************************************************************************)
(* inspection.py: get_threshold_min (535-543) (SpecThMin).                 *)
(*                                                                         *)
(* scipy.stats.norm(mu, sigma).ppf(q) is mu + z(q) * sigma, z(q) the       *)
(* quantile of the standard normal distribution, here to four decimals; it *)
(* is nan when sigma is 0.  mu is the mean and sigma the population        *)
(* standard deviation (np.std) of all pixels of the batch:                 *)
(* with n pixels of sum s and sum of squares q, mu = s/n and               *)
(* sigma = sqrt(n*q - s*s)/n.  The value is held in ten-thousandths.       *)
(***************************************************************************)
DefaultPpf == 97

norm_z(percent) == IF percent = 97 THEN 18808 ELSE 23263

RECURSIVE IsqrtBetween(_, _, _)
IsqrtBetween(n, lo, hi) ==
    IF lo >= hi THEN lo
    ELSE LET mid == (lo + hi + 1) \div 2
         IN  IF mid * mid <= n THEN IsqrtBetween(n, mid, hi)
             ELSE IsqrtBetween(n, lo, mid - 1)

\* the largest r with r * r <= n
Isqrt(n) == IsqrtBetween(n, 0, 46340)

RECURSIVE SeqSum(_)
SeqSum(seq) == IF seq = << >> THEN 0 ELSE Head(seq) + SeqSum(Tail(seq))

\* resmaps.flatten()
pixels(images) == flatten([i \in DOMAIN images |-> flatten(images[i])])

\* scipy.stats.norm(mu, sigma).ppf(percent / 100) of the pixels of a batch:
\* the value num/den, or nan
norm_ppf(images, percent) ==
    LET px == pixels(images)
        n == Len(px)
        sum == SeqSum(px)
        squares == SeqSum([i \in DOMAIN px |-> px[i] * px[i]])
        dev == n * squares - sum * sum
    IN  IF dev = 0 THEN NaN
        ELSE np_divide(sum * 10000 + (norm_z(percent) * Isqrt(dev * 10000)) \div 100,
                       n * 10000)

\* round(x, 1), in tenths: the nearest multiple of 0.1
round_1(x) == (2 * 10 * x.num + x.den) \div (2 * x.den)

\* int(round(x, 1)) - 1; int() truncates, and raises ValueError on nan
int_round_1_minus_1(x) ==
    IF x.kind = "nan" THEN [raised |-> TRUE, value |-> 0]
    ELSE [raised |-> FALSE, value |-> (round_1(x) \div 10) - 1]

\* get_threshold_min(resmaps, ppf_value=0.97): the body reads the module-level
\* array resmaps_val_uint8 (the variable resmaps of this module) and the
\* literal 0.97, not its parameters
get_threshold_min(resmaps_arg, ppf_value) ==
    int_round_1_minus_1(norm_ppf(resmaps, DefaultPpf))

StatLevels == {0, 44, 86, 88}
StatBatches == {<< <<row>> >> : row \in [{1, 2} -> StatLevels]}
Percentiles == {97, 99}

\* the module-level array resmaps_val_uint8 is set (inspection.py:264)
InitThMin ==
    /\ pc = "inspect"
    /\ resmaps \in StatBatches
    /\ threshold = DefaultThreshold
    /\ min_area = DefaultArea
    /\ resmaps_th = None
    /\ areas_all = None
    /\ y_pred = None
    /\ NoScore
    /\ NoCalib
    /\ NoOps
    /\ error = None

\* a call get_threshold_min(batch, ppf_value) (inspection.py:590, 603)
GetThresholdMin ==
    /\ pc = "inspect"
    /\ \E arg \in StatBatches, q \in Percentiles :
            th_min_call' = Some([resmaps |-> arg, ppf_value |-> q]
                                    @@ get_threshold_min(arg, q))
    /\ UNCHANGED <<pc, pipeVars, scoreVars, opsVars, error>>
    /\ UNCHANGED <<max_area, th_min, th_max, counts, edges, counts_sum, x_bars,
                   counts_cumsum>>

NextThMin == GetThresholdMin

SpecThMin == InitThMin /\ [][NextThMin]_vars

(***************************************************************************)
(* processing/cv.py: threshold_images, filter_median_images and            *)
(* label_images as functions of their arguments (SpecOps).                 *)
(*                                                                         *)
(* The maps are 2 x 2 byte maps over the ends of the byte range; the       *)
(* threshold is any integer the command line accepts (test.py:235-237,     *)
(* type=int), the kernel size any small positive integer.  Besides these,  *)
(* every 3 x 3 map over {0, 255}, and batches of two images or more.       *)
(***************************************************************************)
ByteLevels == {0, 1, 254, 255}
ByteImages == [{1, 2} -> [{1, 2} -> ByteLevels]]
ArgThresholds == {-1, 0, 1, 254, 255, 256}
KernelSizes == {1, 2, 3, 4}

BinaryMaps ==
    {ImageOf({1, 2, 3}, 3, S, MaxVal) : S \in SUBSET ({1, 2, 3} \X {1, 2, 3})}

BatchSamples ==
    { << <<0, 0>>, <<0, 0>> >>,
      << <<255, 0>>, <<0, 255>> >>,
      << <<254, 255>>, <<0, 1>> >>,
      << <<0, 255>>, <<0, 0>> >> }

OpsInputs ==
    {[resmaps |-> <<img>>, threshold |-> t, min_area |-> DefaultArea] :
        img \in ByteImages, t \in ArgThresholds}
    \cup {[resmaps |-> <<img>>, threshold |-> 0, min_area |-> DefaultArea] :
            img \in BinaryMaps}
    \cup {[resmaps |-> b, threshold |-> t, min_area |-> a] :
            b \in UNION {[1..n -> BatchSamples] : n \in 2..MaxN},
            t \in {0, 254}, a \in {1, 2}}

InitOps ==
    /\ pc = "start"
    /\ \E input \in OpsInputs :
            /\ resmaps = input.resmaps
            /\ threshold = input.threshold
            /\ min_area = input.min_area
    /\ resmaps_th = None
    /\ areas_all = None
    /\ y_pred = None
    /\ NoScore
    /\ NoCalib
    /\ NoOps
    /\ error = None

\* threshold_images applied to its own output, with the same threshold
ThresholdAgain ==
    /\ pc = "thresholded"
    /\ \E r \in {threshold_images_call(resmaps_th[1], threshold)} :
            /\ resmaps_th' = Some(r[r.returns])
            /\ shares_memory' = Some(r.returns = "images")
    /\ pc' = "rethresholded"
    /\ UNCHANGED <<resmaps, threshold, min_area, areas_all, y_pred>>
    /\ UNCHANGED <<scoreVars, calibVars, error>>
    /\ UNCHANGED <<kernel_size, resmaps_fil, resmaps_labeled>>

\* filter_median_images(resmaps_th, kernel_size)
FilterMedian ==
    /\ pc = "thresholded"
    /\ \E k \in KernelSizes :
         \E r \in {filter_median_images_call(resmaps_th[1], k)} :
             /\ kernel_size' = Some(k)
             /\ resmaps_th' = Some(r.images)
             /\ resmaps_fil' = IF r.raised THEN None ELSE Some(r[r.returns])
             /\ shares_memory' =
                    IF r.raised THEN None ELSE Some(r.returns = "images")
             /\ error' = IF r.raised THEN Some("cv2.error at 66") ELSE None
             /\ pc' = IF r.raised THEN "failed" ELSE "filtered"
    /\ UNCHANGED <<resmaps, threshold, min_area, areas_all, y_pred>>
    /\ UNCHANGED <<scoreVars, calibVars, resmaps_labeled>>

\* label_images(resmaps_fil) on the maps filter_median_images returned, which
\* carry the channel axis (inspection.py:462)
LabelChannels ==
    /\ pc = "filtered"
    /\ \E r \in {label_images_channels(
                    [i \in DOMAIN resmaps_fil[1] |-> expand_dims(resmaps_fil[1][i])])} :
            /\ resmaps_labeled' =
                    Some([i \in DOMAIN resmaps_fil[1] |->
                            take_channel(r.images_labeled[i])])
            /\ areas_all' = Some(r.areas_all)
    /\ pc' = "filtered_labeled"
    /\ UNCHANGED <<resmaps, threshold, min_area, resmaps_th, y_pred>>
    /\ UNCHANGED <<scoreVars, calibVars, error>>
    /\ UNCHANGED <<kernel_size, resmaps_fil, shares_memory>>

NextOps ==
    \/ ThresholdStep
    \/ ThresholdAgain
    \/ FilterMedian
    \/ LabelStep
    \/ LabelChannels
    \/ ClassifyStep

SpecOps == InitOps /\ [][NextOps]_vars

(***************************************************************************)
(* Properties of the classification part of test.py (Spec).                *)
(***************************************************************************)

\* two pixels touch: they differ and lie at most one row and one column apart
Touch(p, q) ==
    /\ p # q
    /\ p[1] - q[1] \in -1..1
    /\ p[2] - q[2] \in -1..1

\* the pixels of fg that a chain of touching pixels of fg joins to those of S
RECURSIVE ConnectedTo(_, _)
ConnectedTo(fg, S) ==
    LET more == {q \in fg \ S : \E p \in S : Touch(p, q)}
    IN  IF more = {} THEN S ELSE ConnectedTo(fg, S \cup more)

\* C24: on every binary map label_images gives id 0 to the background pixels
\* and a positive id to the foreground pixels, the same id to two foreground
\* pixels exactly when they are connected; the areas returned are all >= 1,
\* there is one per connected component, and they add up to the number of
\* foreground pixels of the map.
C24_LabelsAreTheConnectedComponents ==
    pc \in {"labeled", "classified"} =>
        \A i \in DOMAIN resmaps_th[1] :
            LET image == resmaps_th[1][i]
                ids == resmaps_labeled[1][i]
                areas == areas_all[1][i]
                fg == Foreground(image)
            IN  /\ \A p \in Pos(image) :
                        IF At(image, p) = 0 THEN At(ids, p) = 0 ELSE At(ids, p) > 0
                /\ \A p, q \in fg :
                        (At(ids, p) = At(ids, q)) <=> (q \in ConnectedTo(fg, {p}))
                /\ \A k \in DOMAIN areas : areas[k] >= 1
                /\ Len(areas) = Cardinality({ConnectedTo(fg, {p}) : p \in fg})
                /\ SeqSum(areas) = Cardinality(fg)

\* C24, witness: a labeled map with background pixels and two components,
\* one of them of two pixels.
C24_Witness ==
    /\ pc = "labeled"
    /\ \E i \in DOMAIN resmaps_th[1] :
            /\ areas_all[1][i] = <<2, 1>>
            /\ Foreground(resmaps_th[1][i]) = {<<1, 1>>, <<2, 1>>, <<1, ImgW>>}

\* C1: binarize is inclusive on the high side: every output pixel is 255
\* exactly when the input pixel is >= the threshold, and 0 otherwise.
C1_BinarizeInclusive ==
    resmaps_th # None =>
        \A i \in DOMAIN resmaps :
            \A p \in Pos(resmaps[i]) :
                At(resmaps_th[1][i], p) =
                    IF At(resmaps[i], p) >= threshold THEN MaxVal ELSE 0

\* C2: the areas handed to the anomaly decision are those of the binarized
\* and then median-denoised map: binarize, denoise, label, in that order.
C2_AreasOfDenoisedMap ==
    pc = "classified" =>
        areas_all[1] =
            label_images(filter_median_images(
                threshold_images(resmaps, threshold))).areas_all

\* C3: is_defective returns 1 if and only if at least one area of the image
\* is >= min_area, and 0 for an image without regions, whatever min_area is.
C3_IsDefectiveIffSomeAreaReaches ==
    pc = "classified" =>
        \A i \in DOMAIN areas_all[1] :
            /\ y_pred[1][i] \in {0, 1}
            /\ y_pred[1][i] = 1 <=>
                    \E k \in DOMAIN areas_all[1][i] : areas_all[1][i][k] >= min_area
            /\ areas_all[1][i] = << >> => y_pred[1][i] = 0

\* C3, witness: a classified batch holding an image without regions, labelled
\* 0, and an image with a region of exactly min_area pixels, labelled 1.
C3_Witness ==
    /\ pc = "classified"
    /\ \E i \in DOMAIN areas_all[1] :
            areas_all[1][i] = << >> /\ y_pred[1][i] = 0
    /\ \E j \in DOMAIN areas_all[1] :
            /\ y_pred[1][j] = 1
            /\ \A k \in DOMAIN areas_all[1][j] : areas_all[1][j][k] = min_area

\* C5: one label per input image, in input order: the i-th label is the
\* decision computed from the regions of the i-th image.
C5_LabelsAlignedWithImages ==
    pc = "classified" =>
        /\ Len(y_pred[1]) = Len(resmaps)
        /\ \A i \in DOMAIN resmaps :
                y_pred[1][i] =
                    is_defective(
                        regionprops(label(cv2_threshold(resmaps[i], threshold, MaxVal))),
                        min_area)

\* C5, witness: a classified batch of two images whose labels differ.
C5_Witness ==
    /\ pc = "classified"
    /\ Len(resmaps) >= 2
    /\ y_pred[1][1] = 1
    /\ y_pred[1][2] = 0

(***************************************************************************)
(* The classification part of test.py on one image of noise in 0..5 with   *)
(* a planted 10 x 10 block of value 250 (SpecE2E).                         *)
(*                                                                         *)
(* The block fills rows 1..10 and columns 1..10 of a 12 x 11 image; the    *)
(* other pixels are noise: at most MaxHot of them hold the largest noise   *)
(* value 5, the rest hold one lower value.  The 0.97 quantile of noise     *)
(* spread evenly over 0..5 lies between 4 and 5: get_threshold_min's       *)
(* formula int(round(ppf, 1)) - 1 gives 4, the nearest integer is 5, and   *)
(* every threshold from 5 to 249 binarizes such an image as 5 does.        *)
(***************************************************************************)
MaxHot == 2

Block == (1..10) \X (1..10)
E2EPos == (1..12) \X (1..11)
NoisePos == E2EPos \ Block
NoiseLow == {0, 4}
E2EThresholds == {4, 5}
E2EMinAreas == {Cardinality(Block), Cardinality(Block) + 1}

RECURSIVE SubsetsUpTo(_, _)
SubsetsUpTo(S, k) ==
    IF k = 0 THEN {{}}
    ELSE {T \cup {x} : T \in SubsetsUpTo(S, k - 1), x \in S} \cup {{}}

E2EImage(hot, lo) ==
    [r \in 1..12 |->
        [c \in 1..11 |->
            IF <<r, c>> \in Block THEN 250
            ELSE IF <<r, c>> \in hot THEN 5 ELSE lo]]

InitE2E ==
    /\ pc = "start"
    /\ \E hot \in SubsetsUpTo(NoisePos, MaxHot), lo \in NoiseLow :
            resmaps = <<E2EImage(hot, lo)>>
    /\ threshold \in E2EThresholds
    /\ min_area \in E2EMinAreas
    /\ resmaps_th = None
    /\ areas_all = None
    /\ y_pred = None
    /\ NoScore
    /\ NoCalib
    /\ NoOps
    /\ error = None

SpecE2E == InitE2E /\ [][Next]_vars

NoNoiseAboveThreshold ==
    \A p \in NoisePos : At(resmaps[1], p) <= threshold

C6_AbsentClassScoresNaN ==
    ( /\ pc # "classified"
      /\ Len(y_pred[1]) = Len(y_true[1])
      /\ total_number[1] = Len(y_true[1])
      /\ (P[1] = 0 \/ N[1] = 0) )
    =>  /\ pc = "scored"
        /\ P[1] = 0 => (TPR[1].kind = "nan" /\ TNR[1].kind = "num")
        /\ N[1] = 0 => (TNR[1].kind = "nan" /\ TPR[1].kind = "num")
        /\ test_result[1].TPR = <<TPR[1]>>
        /\ test_result[1].TNR = <<TNR[1]>>

\* C7: scoring predictions against a ground truth of another length fails
\* before any count or rate is computed and leaves no partial result.
C7_LengthMismatchFailsFirst ==
    (pc # "classified" /\ Len(y_pred[1]) # Len(y_true[1]))
    =>  /\ pc = "failed"
        /\ error # None
        /\ P = None /\ N = None /\ TP = None /\ TN = None
        /\ TPR = None /\ TNR = None
        /\ test_result = Some(EmptyResult)

\* C18: for predictions and ground truth of equal length (and as many files
\* counted), scoring yields confusion counts that partition the images:
\* TP + TN + FP + FN is the number of images, TP + FN the number of positives
\* and TN + FP the number of negatives of the ground truth; and the rates it
\* reports are TPR = TP/(TP+FN) and TNR = TN/(TN+FP).
C18_ConfusionCountsPartition ==
    ( /\ pc # "classified"
      /\ Len(y_pred[1]) = Len(y_true[1])
      /\ total_number[1] = Len(y_true[1]) )
    =>  /\ pc = "scored"
        /\ LET FN == Cardinality({i \in DOMAIN y_true[1] :
                                    y_true[1][i] = 1 /\ y_pred[1][i] = 0})
               FP == Cardinality({i \in DOMAIN y_true[1] :
                                    y_true[1][i] = 0 /\ y_pred[1][i] = 1})
           IN  /\ TP[1] + TN[1] + FP + FN = Len(y_true[1])
               /\ TP[1] + FN = P[1]
               /\ TN[1] + FP = N[1]
               /\ test_result[1].TPR = <<np_divide(TP[1], TP[1] + FN)>>
               /\ test_result[1].TNR = <<np_divide(TN[1], TN[1] + FP)>>

\* C26: a run with the save flag set that has written the test result and
\* the classification file goes on to save the test inputs, the predictions
\* and the residual maps and ends normally.
C26_SaveStepCompletes ==
    ( /\ pc \in {"done", "failed"}
      /\ save[1]
      /\ "classification.txt" \in files[1] )
    =>  /\ pc = "done"
        /\ error = None
        /\ {"imgs_test_input.npy", "imgs_test_pred.npy", "resmaps_test.npy"}
                \subseteq files[1]

(***************************************************************************)
(* Properties of the area-distribution functions of inspection.py          *)
(* (SpecCalib).                                                            *)
(***************************************************************************)

C9_MaxAreaOrZero ==
    max_area # None =>
        LET areas == region_areas(resmaps, max_area[1].threshold)
        IN  /\ ~max_area[1].raised
            /\ max_area[1].value =
                    IF areas = << >> THEN 0 ELSE SeqMax(areas)

\* C10: get_max_area is non-increasing in the threshold: a call at a threshold
\* t2 made after a call at t1 <= t2 returns a value, and one that is <= the
\* value returned at t1.
C10_MaxAreaNonIncreasing ==
    [][ ( /\ max_area # None
          /\ max_area' # None
          /\ ~max_area[1].raised
          /\ max_area'[1].threshold >= max_area[1].threshold )
        => ( /\ ~max_area'[1].raised
             /\ max_area'[1].value <= max_area[1].value ) ]_vars

\* C17: on an all-zero batch, with any threshold > 0 and any min_area >= 1,
\* every image is labelled normal.
C17_AllZeroBatchAllNormal ==
    ( /\ pc = "classified"
      /\ \A i \in DOMAIN resmaps : \A p \in Pos(resmaps[i]) : At(resmaps[i], p) = 0
      /\ threshold > 0
      /\ min_area >= 1 )
    =>  /\ Len(y_pred[1]) = Len(resmaps)
        /\ \A i \in DOMAIN y_pred[1] : y_pred[1][i] = 0

\* C17, witness: an all-zero batch of two images classified with a threshold
\* > 0 and the smallest min_area, 1; both images labelled normal.
C17_Witness ==
    /\ pc = "classified"
    /\ Len(resmaps) >= 2
    /\ \A i \in DOMAIN resmaps : \A p \in Pos(resmaps[i]) : At(resmaps[i], p) = 0
    /\ threshold > 0
    /\ min_area = 1
    /\ y_pred[1] = [i \in DOMAIN resmaps |-> 0]

(***************************************************************************)
(* Properties of the sweep, its sum and its cumulative distribution        *)
(* (SpecSweep).                                                            *)
(***************************************************************************)

\* C11: in a sweep over th_min..th_max the shared histogram range, from the
\* first edge 0.5 to the last edge max_area(th_min) + 0.5, holds every region
\* area measured at every threshold of the sweep.
C11_RangeHoldsEveryArea ==
    pc = "swept" =>
        LET lower == edges[1][1]
            upper == edges[1][Len(edges[1])]
        IN  /\ 2 * lower[1] = lower[2]
            /\ \A i \in DOMAIN counts[1] :
                    LET areas == region_areas(resmaps, th_min[1] + i - 1)
                    IN  \A j \in DOMAIN areas :
                            /\ areas[j] * lower[2] >= lower[1]
                            /\ areas[j] * upper[2] <= upper[1]

\* C11, witness: a sweep over two thresholds or more in which a later
\* threshold still has a region, smaller than the largest one at th_min.
C11_Witness ==
    /\ pc = "swept"
    /\ th_min[1] < th_max[1]
    /\ \E t \in (th_min[1] + 1)..th_max[1] :
            LET areas == region_areas(resmaps, t)
            IN  /\ areas # << >>
                /\ SeqMax(areas) < SeqMax(region_areas(resmaps, th_min[1]))

\* C12: every histogram of the sweep is a density of total mass 1: its bin
\* values times the bin width add up to 1 at every threshold of the sweep,
\* also at a threshold where few or no regions remain.
C12_EveryHistogramIsADensity ==
    pc = "swept" =>
        \A i \in DOMAIN counts[1] :
            LET total == np_sum(counts[1][i])
                e == edges[1]
            IN  /\ total.kind = "num"
                /\ total.num * (e[2][1] - e[1][1]) = total.den * e[1][2]

Orders(n) ==
    {f \in [1..n -> 1..n] : \A i, j \in 1..n : f[i] = f[j] => i = j}

\* two floats hold the same value (nan taken as equal to nan)
SameValue(x, y) ==
    /\ x.kind = y.kind
    /\ x.kind = "num" => x.num * y.den = y.num * x.den

\* C13: get_sum_counts returns, bin by bin, the sum of the histograms of the
\* sweep, and that sum is the same in whatever order the thresholds'
\* histograms are added.
C13_SumIsElementwiseInAnyOrder ==
    pc = "summed" =>
        /\ Len(counts_sum[1]) = Len(counts[1][1])
        /\ \A order \in Orders(Len(counts[1])) :
                \A k \in DOMAIN counts_sum[1] :
                    SameValue(counts_sum[1][k],
                              np_sum([i \in DOMAIN counts[1] |-> counts[1][order[i]][k]]))

\* C13, witness: a sum over two thresholds or more whose histograms put
\* different positive densities into the same bin.
C13_Witness ==
    /\ pc = "summed"
    /\ \E k \in DOMAIN counts_sum[1] :
            /\ counts_sum[1][k].kind = "num"
            /\ \E i, j \in DOMAIN counts[1] :
                    /\ counts[1][i][k].kind = "num" /\ counts[1][i][k].num > 0
                    /\ counts[1][j][k].kind = "num" /\ counts[1][j][k].num > 0
                    /\ ~SameValue(counts[1][i][k], counts[1][j][k])

\* C14: the cumulative distribution of the summed histogram, normalised by its
\* total, has a smallest bin at which it exceeds 0.99: the bin that is
\* selected as min_area.
C14_MinAreaWhereCumulativeExceeds ==
    pc = "accumulated" =>
        \E k \in DOMAIN counts_cumsum[1] :
            /\ np_greater(counts_cumsum[1][k], 99, 100)
            /\ \A j \in 1..(k - 1) : ~np_greater(counts_cumsum[1][j], 99, 100)

(***************************************************************************)
(* Properties of get_threshold_min (SpecThMin).                            *)
(***************************************************************************)

\* the integer nearest to a float
NearestInteger(x) == (2 * x.num + x.den) \div (2 * x.den)

\* C15: th_min is the percentile value of Normal(mean, std) of the batch,
\* rounded to the nearest integer, minus 1 (126.7 gives 126); stated for a call
\* with the module-level batch and the default percentile 0.97.
C15_ThMinIsNearestIntegerMinusOne ==
    ( /\ th_min_call # None
      /\ th_min_call[1].resmaps = resmaps
      /\ th_min_call[1].ppf_value = DefaultPpf
      /\ norm_ppf(resmaps, DefaultPpf).kind = "num" )
    =>  /\ ~th_min_call[1].raised
        /\ th_min_call[1].value = NearestInteger(norm_ppf(resmaps, DefaultPpf)) - 1

\* C16: the result of get_threshold_min(resmaps, ppf_value) depends on its
\* arguments only: it is the value the batch and the percentile passed in
\* give, whatever the module-level array holds.
C16_ThMinDependsOnArgumentsOnly ==
    th_min_call # None =>
        LET expected ==
                int_round_1_minus_1(norm_ppf(th_min_call[1].resmaps,
                                             th_min_call[1].ppf_value))
        IN  /\ th_min_call[1].raised = expected.raised
            /\ th_min_call[1].value = expected.value

(***************************************************************************)
(* Properties of threshold_images and filter_median_images as functions    *)
(* (SpecOps).                                                              *)
(***************************************************************************)

\* C19: invalid parameters are rejected and produce no output: a threshold
\* outside 0..255 in threshold_images, and a kernel size that is even or
\* smaller than 3 in filter_median_images.
C19_InvalidParametersRejected ==
    /\ (pc # "start" /\ threshold \notin 0..MaxVal)
            => (pc = "failed" /\ error # None /\ resmaps_th = None)
    /\ (kernel_size # None /\ (kernel_size[1] % 2 = 0 \/ kernel_size[1] < KernelSize))
            => (pc = "failed" /\ error # None /\ resmaps_fil = None)

\* C20: threshold_images is idempotent on its own output: for every byte map
\* and every threshold in 0..255, the map binarized twice at that threshold is
\* the map binarized once, and it holds only the values 0 and 255.
C20_BinarizeIdempotent ==
    (pc = "rethresholded" /\ threshold \in 0..MaxVal)
    =>  /\ resmaps_th[1] = threshold_images(resmaps, threshold)
        /\ \A i \in DOMAIN resmaps_th[1] : \A p \in Pos(resmaps_th[1][i]) :
                At(resmaps_th[1][i], p) \in {0, MaxVal}

\* C20, witness: a map with pixels on both sides of the threshold 254,
\* binarized twice: pixels of both values 0 and 255 remain.
C20_Witness ==
    /\ pc = "rethresholded"
    /\ threshold = MaxVal - 1
    /\ \E p \in Pos(resmaps[1]) :
            At(resmaps[1], p) = MaxVal /\ At(resmaps_th[1][1], p) = MaxVal
    /\ \E p \in Pos(resmaps[1]) :
            At(resmaps[1], p) = MaxVal - 1 /\ At(resmaps_th[1][1], p) = 0

(***************************************************************************)
(* Properties of label_images and of the calls as a whole (SpecOps).       *)
(***************************************************************************)

\* the maps the last label_images call was given
LabelInput == IF pc = "filtered_labeled" THEN resmaps_fil[1] ELSE resmaps_th[1]

\* two pixels touch only diagonally
Diagonal(p, q) ==
    /\ p[1] - q[1] \in {-1, 1}
    /\ p[2] - q[2] \in {-1, 1}

\* C21: label_images joins two foreground pixels that touch only diagonally
\* into one region, and a map whose foreground is two such pixels has one
\* region of area 2 (not two of area 1); for maps given as 2-D maps
\* (test.py:152-155) and for maps given with the trailing channel axis
\* (inspection.py:461-462).
C21_DiagonalPixelsAreOneRegion ==
    pc \in {"labeled", "filtered_labeled"} =>
        \A i \in DOMAIN LabelInput :
            LET fg == Foreground(LabelInput[i])
                ids == resmaps_labeled[1][i]
            IN  \A p, q \in fg :
                    Diagonal(p, q) =>
                        /\ At(ids, p) = At(ids, q)
                        /\ fg = {p, q} => areas_all[1][i] = <<2>>

\* C21, witness: a map with the channel axis whose foreground is two pixels
\* touching diagonally has been labeled as one region of area 2.
C21_Witness ==
    /\ pc = "filtered_labeled"
    /\ \E p, q \in Pos(resmaps_fil[1][1]) :
            /\ Diagonal(p, q)
            /\ Foreground(resmaps_fil[1][1]) = {p, q}
    /\ areas_all[1][1] = <<2>>

\* the {0, 255} maps of the shape of a map whose foreground holds the
\* foreground of that map
MapsAbove(image) ==
    {ImageOf(DOMAIN image, Width(image), Foreground(image) \cup S, MaxVal) :
        S \in SUBSET (Pos(image) \ Foreground(image))}

\* C25: the 3 x 3 median of a {0, 255} map holds only 0 and 255, and it is
\* monotone: the foreground of the denoised map lies within the foreground
\* of the denoised form of every {0, 255} map whose foreground holds that of
\* the map, at the image borders as elsewhere.
C25_MedianBinaryAndMonotone ==
    (pc = "filtered" /\ kernel_size[1] = KernelSize) =>
        \A i \in DOMAIN resmaps_th[1] :
            /\ \A p \in Pos(resmaps_fil[1][i]) :
                    At(resmaps_fil[1][i], p) \in {0, MaxVal}
            /\ \A above \in MapsAbove(resmaps_th[1][i]) :
                    Foreground(resmaps_fil[1][i])
                        \subseteq Foreground(cv2_medianBlur(above, KernelSize))

\* C25, witness: a 3 x 3 map with foreground and background that the median
\* changed, keeping a foreground pixel in a corner and removing the one in
\* the centre.
C25_Witness ==
    /\ pc = "filtered"
    /\ kernel_size[1] = KernelSize
    /\ Height(resmaps_th[1][1]) = 3
    /\ At(resmaps_th[1][1], <<2, 2>>) = MaxVal
    /\ At(resmaps_fil[1][1], <<2, 2>>) = 0
    /\ At(resmaps_fil[1][1], <<1, 1>>) = MaxVal

\* C23: threshold_images, filter_median_images and label_images leave their
\* argument as it was: the batch passed in holds after the call the values it
\* held before, and the array returned is a new one, not the argument.
C23_CallsLeaveTheirInput ==
    [][ /\ resmaps' = resmaps
        /\ (pc = "thresholded" /\ pc' \in {"filtered", "failed", "labeled"})
                => resmaps_th' = resmaps_th
        /\ pc = "filtered" => resmaps_fil' = resmaps_fil
        /\ shares_memory' # Some(TRUE) ]_vars

\* C23, witness: threshold_images has returned a batch that differs from its
\* argument, which still holds a value that is neither 0 nor 255, and
\* filter_median_images has returned a batch that differs from its argument.
C23_Witness ==
    /\ pc = "filtered"
    /\ shares_memory = Some(FALSE)
    /\ \E p \in Pos(resmaps[1]) : At(resmaps[1], p) \notin {0, MaxVal}
    /\ resmaps_th[1] # resmaps
    /\ resmaps_fil[1] # resmaps_th[1]

\* one pass of the loop of the call named, on image i
Pass(call, mem, i) ==
    CASE call = "threshold_images" -> threshold_images_pass(mem, threshold, i)
      [] call = "filter_median_images" ->
            filter_median_images_pass(mem, kernel_size[1], i)
      [] call = "label_images" -> label_images_pass(mem, i)

\* the passes of a call made in the order given, one per image
RECURSIVE PassesInOrder(_, _, _, _)
PassesInOrder(call, mem, order, k) ==
    IF k > Len(order) THEN mem
    ELSE PassesInOrder(call, Pass(call, mem, order[k]), order, k + 1)

====
